---- MODULE Spec2Model ----
(***************************************************************************)
(* Model of the IIP2 linearity measurement of equipment-automation:        *)
(*   LinearityMeasurement.measure_iip2            (the voltage sweep)      *)
(*   LinearityMeasurement.calculate_second_order_product (FFT bin lookup)  *)
(*   LinearityMeasurement.calculate_intercept     (first-order fit)        *)
(*   Oscilloscope / SignalGenerator               (SCPI command wrappers)  *)
(*                                                                         *)
(* Units.  Sweep end points are integers in microvolts; np.round(., 5)     *)
(* rounds to multiples of 1e-5 V, so a rounded level is an integer number  *)
(* of 10-microvolt steps.  Frequencies are integers in Hz, samples are     *)
(* integers.  A decibel value is NegInf, Db(v) with v an integer (when the *)
(* power is an exact power of ten) or [kind |-> "tenlog10", num, den],     *)
(* standing for 10*log10(num/den).                                         *)
(***************************************************************************)
EXTENDS Integers, Sequences, FiniteSets

VARIABLES
    \* ---- measure_iip2 -------------------------------------------------
    pc,                     \* next statement of measure_iip2
    start_voltage,          \* arguments of the call (microvolts)
    stop_voltage,
    num,
    input_voltages,         \* line 35: rounded levels (10-microvolt steps)
    i,                      \* completed iterations of the for loop
    second_order_products,  \* line 36 / 66
    waveform_volts,         \* line 61: the last captured waveform
    second_order_intercept, \* line 76: the value printed at line 77
    ret,                    \* line 79: the returned value
    error,                  \* the exception that left measure_iip2
    \* ---- instruments --------------------------------------------------
    sg_output,              \* signal generator channel 1 output: "on"/"off"
    sg_amplitude,           \* amplitude last applied by APPLy
    osc_running,            \* digitizer acquisition running
    \* ---- history ------------------------------------------------------
    log,                    \* every command sent, tagged with its step
    captures,               \* every waveform read from the digitizer
    used,                   \* per product: the capture it was computed from
    \* ---- calculate_second_order_product called alone ------------------
    x_pc, x_waveform, x_freq1, x_freq2, x_fs, x_result,
    \* ---- calculate_intercept called alone -----------------------------
    f_pc, f_levels, f_products, f_result

sweepVars == <<pc, start_voltage, stop_voltage, num, input_voltages, i,
               second_order_products, waveform_volts, second_order_intercept,
               ret, error, sg_output, sg_amplitude, osc_running, log,
               captures, used>>
extractVars == <<x_pc, x_waveform, x_freq1, x_freq2, x_fs, x_result>>
fitVars == <<f_pc, f_levels, f_products, f_result>>
vars == <<sweepVars, extractVars, fitVars>>

----------------------------------------------------------------------------
(* Bounds of the model                                                     *)

\* largest number of sweep steps (num) a call is made with
MaxNum == 3
\* largest number of points handed to calculate_intercept called alone
MaxPts == 3
\* largest frequency (Hz) of a tone / sample rate when the extractor is
\* called alone
MaxFreq == 4

----------------------------------------------------------------------------
(* Arithmetic helpers                                                      *)

Abs(a) == IF a < 0 THEN -a ELSE a

Max(a, b) == IF a >= b THEN a ELSE b

RECURSIVE Gcd(_, _)
Gcd(a, b) == IF b = 0 THEN Abs(a) ELSE Gcd(b, a % Abs(b))

\* the fraction n/d in lowest terms with a positive denominator (d # 0)
Normalize(n, d) ==
    LET g == Gcd(n, d)
        s == IF d < 0 THEN -1 ELSE 1
    IN  <<(s * n) \div g, (s * d) \div g>>

RECURSIVE SumSeq(_)
SumSeq(s) == IF s = <<>> THEN 0 ELSE Head(s) + SumSeq(Tail(s))

\* decibel values: 10*log10 of a power
Db(v) == [kind |-> "db", value |-> v]
NegInf == [kind |-> "neginf"]

----------------------------------------------------------------------------
(* Sweep levels: np.round(np.linspace(start, stop, num), 5)                *)

\* microvolts in one rounding step of np.round(., 5), i.e. 1e-5 V
MicroPerStep == 10

\* np.linspace(start, stop, num)[k-1] as the exact fraction <<p, q>> of
\* microvolts: start + (k-1)*(stop-start)/(num-1), both ends included;
\* a single sample is start itself.
linspace(start, stop, n, k) ==
    IF n = 1 THEN <<start, 1>>
    ELSE <<start * (n - 1) + (k - 1) * (stop - start), n - 1>>

\* the value p/q microvolts lies exactly half way between two multiples of
\* the rounding step
IsTie(p, q) == 2 * (p % (q * MicroPerStep)) = q * MicroPerStep

\* np_round with the rounding lost: the value is truncated
np_round_truncating(p, q, up) == p \div (q * MicroPerStep)

\* np.round(p/q microvolts, 5) in rounding steps.  numpy computes
\* rint(x * 1e5) / 1e5 in binary floating point: away from a tie the nearest
\* multiple is returned; at an exact decimal tie the product x * 1e5 falls
\* on either side of .5 depending on the representation error of x, so the
\* result is one of the two neighbours (up chooses which).
np_round(p, q, up) ==
    LET d  == q * MicroPerStep
        fl == p \div d
        r  == p % d
    IN  IF 2 * r < d THEN fl
        ELSE IF 2 * r > d THEN fl + 1
        ELSE IF up THEN fl + 1 ELSE fl

\* indices of the sweep whose exact level is a rounding tie
TieIdx(start, stop, n) ==
    {k \in 1..n : IsTie(linspace(start, stop, n, k)[1],
                        linspace(start, stop, n, k)[2])}

\* the ways the ties of one sweep can resolve: equal samples (start = stop)
\* are the same float and round the same way
TieChoices(start, stop, n) ==
    IF start = stop THEN {{}, TieIdx(start, stop, n)}
    ELSE SUBSET TieIdx(start, stop, n)

\* line 35: input_voltages, given the resolution ups of the ties
Levels(start, stop, n, ups) ==
    [k \in 1..n |-> np_round(linspace(start, stop, n, k)[1],
                             linspace(start, stop, n, k)[2], k \in ups)]

----------------------------------------------------------------------------
(* calculate_intercept: np.polyfit(x, y, 1) and -c[1]/c[0]                 *)

Finite(r) == [kind |-> "finite", num |-> r[1], den |-> r[2]]
\* +inf, -inf or NaN
NonFinite == [kind |-> "nonfinite"]
\* a finite float that is only rounding error divided by rounding error
IllConditioned == [kind |-> "illconditioned"]

Dot(xs, ys) == SumSeq([j \in 1..Len(xs) |-> xs[j] * ys[j]])
\* the numbers of a sequence of Db values
Values(ys) == [j \in 1..Len(ys) |-> ys[j].value]
Ones(xs) == [j \in 1..Len(xs) |-> 1]

\* numerator and denominator of the least-squares slope c[0]
SlopeNum(xs, ys) == Len(xs) * Dot(xs, ys) - Dot(xs, Ones(xs)) * Dot(ys, Ones(ys))
FitDen(xs) == Len(xs) * Dot(xs, xs) - Dot(xs, Ones(xs)) * Dot(xs, Ones(xs))
\* numerator of the least-squares constant term c[1] (same denominator)
ConstNum(xs, ys) == Dot(ys, Ones(ys)) * Dot(xs, xs) - Dot(xs, Ones(xs)) * Dot(xs, ys)

\* np.polyfit scales each column of its design matrix by the column's norm;
\* when every level is 0 the x column becomes 0/0 = NaN and the least
\* squares solver raises numpy.linalg.LinAlgError
LinAlgError == [kind |-> "LinAlgError"]

\* The set of outcomes of calculate_intercept(xs, ys), for levels xs and
\* decibel values ys, Len(xs) = Len(ys) >= 2.  There is no check of the
\* slope; the only exception is the LinAlgError of np.polyfit for levels
\* that are all 0.  Otherwise numpy float division by zero yields inf or
\* NaN: when the exact slope is zero, or the fit is rank deficient (all x
\* equal), the float slope is zero or a rounding residue, so the quotient
\* is non-finite or meaningless.  A -inf among the products makes the
\* coefficients non-finite.
calculate_intercept(xs, ys) ==
    IF \A j \in 1..Len(xs) : xs[j] = 0 THEN {LinAlgError}
    ELSE IF \E j \in 1..Len(ys) : ys[j] = NegInf THEN {NonFinite}
    ELSE IF FitDen(xs) = 0 \/ SlopeNum(xs, Values(ys)) = 0
         THEN {NonFinite, IllConditioned}
    ELSE {Finite(Normalize(-ConstNum(xs, Values(ys)),
                           SlopeNum(xs, Values(ys))))}

----------------------------------------------------------------------------
(* calculate_second_order_product                                          *)

\* waveform lengths for which 2*cos(2*pi*j/N) is an integer, so that the
\* squared DFT magnitudes of integer samples are exact integers
WaveLens == {1, 2, 3, 4, 6}

\* 2*cos(2*pi*j/N), j in 0..N-1, N in WaveLens
Cos2(N, j) ==
    CASE N = 1 -> 2
      [] N = 2 -> <<2, -2>>[j + 1]
      [] N = 3 -> <<2, -1, -1>>[j + 1]
      [] N = 4 -> <<2, 0, -2, 0>>[j + 1]
      [] N = 6 -> <<2, 1, -1, -2, -1, 1>>[j + 1]

\* |np.fft.fft(w)[k]|^2 = sum_{m,n} w[m] w[n] cos(2 pi k (m-n) / N)
MagSq(w, k) ==
    LET N == Len(w)
        term(p) == LET m == (p - 1) \div N
                       n == (p - 1) % N
                   IN  w[m + 1] * w[n + 1] * Cos2(N, (k * (m - n)) % N)
    IN  SumSeq([p \in 1..(N * N) |-> term(p)]) \div 2

RECURSIVE IsPow2(_)
IsPow2(n) == n = 1 \/ (n > 1 /\ n % 2 = 0 /\ IsPow2(n \div 2))

\* N times the distance |fft_freq[k] - target|, fft_freq[k] = k*fs/N
BinDistance(N, fs, k, target) == Abs(k * fs - N * target)

\* argmin with np.abs forgotten: the least signed difference is at bin 0
argmin_no_abs(N, half, fs, target) ==
    {k \in 0..(half - 1) :
        \A j \in 0..(half - 1) : k * fs - N * target <= j * fs - N * target}

\* np.argmin(np.abs(fft_freq - target)) over the retained bins
\* k = 0..half-1: the set of indices it can return.  np.argmin returns the
\* first index of the least float distance.  When two bins are exactly
\* equally distant, the float distances are equal if fs and N are powers of
\* two (then fftfreq is exact) and the first such bin is returned;
\* otherwise the rounding of fs/N decides which of the tied bins is least.
argmin(N, half, fs, target) ==
    LET least == {k \in 0..(half - 1) :
                    \A j \in 0..(half - 1) :
                       BinDistance(N, fs, k, target)
                          <= BinDistance(N, fs, j, target)}
    IN  IF IsPow2(N) /\ IsPow2(fs)
        THEN {k \in least : \A j \in least : k <= j}
        ELSE least

RECURSIVE Log10Exact(_)
\* log10 of a positive integer that is a power of ten, -1 for any other
Log10Exact(n) ==
    IF n = 1 THEN 0
    ELSE IF n % 10 # 0 THEN -1
    ELSE LET l == Log10Exact(n \div 10) IN IF l < 0 THEN -1 ELSE l + 1

\* 10 * np.log10(n/d), n >= 0, d > 0; np.log10(0) is -inf (a warning, no
\* exception)
TenLog10(n, d) ==
    IF n = 0 THEN NegInf
    ELSE LET r == Normalize(n, d)
         IN  IF r[2] = 1 /\ Log10Exact(r[1]) >= 0
                 THEN Db(10 * Log10Exact(r[1]))
             ELSE IF r[1] = 1 /\ Log10Exact(r[2]) >= 0
                 THEN Db(-10 * Log10Exact(r[2]))
             ELSE [kind |-> "tenlog10", num |-> r[1], den |-> r[2]]

\* the exception np.argmin raises on an empty array
ValueError == [kind |-> "ValueError"]

\* lines 84-107: the set of outcomes of the call, Len(w) >= 1.
\* half = len(fft) // 2 bins are retained and the magnitude is divided by
\* half; with a single sample no bin is retained and np.argmin of the
\* empty array raises ValueError.
calculate_second_order_product(w, freq1, freq2, fs) ==
    LET N        == Len(w)
        half     == N \div 2
        f_sum    == freq1 + freq2
        f_diff   == Abs(freq1 - freq2)
    IN  IF half = 0 THEN {ValueError}
        ELSE {TenLog10(Max(MagSq(w, idx_sum), MagSq(w, idx_diff)), half * half) :
                 idx_sum \in argmin(N, half, fs, f_sum),
                 idx_diff \in argmin(N, half, fs, f_diff)}

----------------------------------------------------------------------------
(* Inputs                                                                  *)

\* sweep end points offered to measure_iip2 (microvolts): negative, zero,
\* below half a rounding step, rounding ties, and exact multiples
LevelInputs == {-5, 0, 2, 8, 25}

\* measure_iip2 defaults (line 33), in Hz
Freq1 == 1000000
Freq2 == 1010000
Fs == 50000

\* waveforms the digitizer returns during a sweep: silent, 0 dB and 20 dB
\* at the product bin, and a single-sample record
ScopeWaveforms == {<<0, 0, 0, 0>>, <<1, 0, -1, 0>>, <<10, 0, -10, 0>>, <<3>>}

\* what the :WAVeform:DATA? query of get_waveform_data can bring back: a
\* header and comma separated numbers, or text float() rejects (for
\* example an empty reply)
ScopeResponses ==
    {[kind |-> "data", samples |-> w] : w \in ScopeWaveforms}
        \cup {[kind |-> "garbled"]}

\* sample values and waveforms offered to the extractor called alone
Samples == {-1, 0, 1}
Waveforms == UNION {[1..n -> Samples] : n \in WaveLens}
SampleRates == (1..MaxFreq) \cup {8}

\* points offered to calculate_intercept called alone
FitLevels == 0..3
FitPowers == {Db(v) : v \in -1..2} \cup {NegInf}

Unset == [kind |-> "unset"]

----------------------------------------------------------------------------
(* Instrument command wrappers                                             *)

\* one command sent to an instrument (or one computation of the loop body)
\* during step s; running is the digitizer's acquisition state when it is
\* issued
Cmd(s, op, running) == [step |-> s, op |-> op, running |-> running]

\* get_waveform_data without its leading self.stop()
get_waveform_data_ops_no_stop ==
    <<":WAVeform:SOURce", ":WAVeform:MODE", ":WAVeform:FORMat",
      ":WAVeform:STARt", ":WAVeform:STOP", ":WAVeform:DATA?", "*OPC?">>

\* Oscilloscope.get_waveform_data, lines 103-116: the commands it sends, in
\* order; the first one stops the acquisition
get_waveform_data_ops ==
    <<":STOP", ":WAVeform:SOURce", ":WAVeform:MODE", ":WAVeform:FORMat",
      ":WAVeform:STARt", ":WAVeform:STOP", ":WAVeform:DATA?", "*OPC?">>

\* the digitizer's acquisition state after the commands ops, sent in order
RECURSIVE RunningAfter(_, _)
RunningAfter(running, ops) ==
    IF ops = <<>> THEN running
    ELSE RunningAfter(IF Head(ops) = ":RUN" THEN TRUE
                      ELSE IF Head(ops) = ":STOP" THEN FALSE
                      ELSE running, Tail(ops))

\* the log entries of the commands ops sent in order during step s
Sent(s, running, ops) ==
    [j \in 1..Len(ops) |->
        Cmd(s, ops[j], RunningAfter(running, SubSeq(ops, 1, j - 1)))]

\* LinearityMeasurement.set_oscilloscope, lines 21-31
set_oscilloscope_ops ==
    <<":TIMEBASE:SCALE", ":CHANNEL1:SCALE", ":TRIGGER:EDGE:SOURCE",
      ":TRIGGER:EDGE:LEVEL">>

\* the most commands one statement of measure_iip2 sends
MaxOps == Max(Len(get_waveform_data_ops), Len(set_oscilloscope_ops))

----------------------------------------------------------------------------
(* measure_iip2                                                            *)

\* the loop step being executed (1-based); num + 1 once the loop is over
Step == i + 1

\* line 66: second_order_products.append(second_order_power)
append_product(products, p) == Append(products, p)

\* assign_waveform with the assignment lost after the first capture: later
\* steps keep the waveform of step 1
assign_waveform_stale(old, id, samples) ==
    IF old.id = 0 THEN [id |-> id, samples |-> samples] ELSE old

\* line 61: waveform_volts = self.osc.get_waveform_data(channel=1); id is
\* the position of the capture in the history
assign_waveform(old, id, samples) == [id |-> id, samples |-> samples]

\* line 75: the condition under which calculate_intercept is called
fit_wanted(products) == Len(products) > 1

\* lines 33-42: the call.  No argument is checked; np.linspace and np.round
\* build the levels for any start, stop and num >= 0.
Call(start, stop, n, ups) ==
    /\ pc = "idle"
    /\ start_voltage' = start
    /\ stop_voltage' = stop
    /\ num' = n
    /\ input_voltages' = Levels(start, stop, n, ups)
    /\ second_order_products' = <<>>
    /\ pc' = "for"
    /\ UNCHANGED <<i, waveform_volts, second_order_intercept, ret, error,
                   sg_output, sg_amplitude, osc_running, log, captures, used>>

\* lines 44-46: next level of the loop, sg.set_waveform("SIN", ...)
SetWaveform ==
    /\ pc = "for"
    /\ i < Len(input_voltages)
    /\ sg_amplitude' = input_voltages[i + 1]
    /\ log' = log \o Sent(Step, osc_running, <<"APPLy:SIN">>)
    /\ pc' = "enable_output"
    /\ UNCHANGED <<start_voltage, stop_voltage, num, input_voltages, i,
                   second_order_products, waveform_volts,
                   second_order_intercept, ret, error, sg_output,
                   osc_running, captures, used>>

\* line 47: sg.enable_output()
EnableOutput ==
    /\ pc = "enable_output"
    /\ sg_output' = "on"
    /\ log' = log \o Sent(Step, osc_running, <<"OUTP1 ON">>)
    /\ pc' = "set_oscilloscope"
    /\ UNCHANGED <<start_voltage, stop_voltage, num, input_voltages, i,
                   second_order_products, waveform_volts,
                   second_order_intercept, ret, error, sg_amplitude,
                   osc_running, captures, used>>

\* line 50: self.set_oscilloscope(freq1, voltage)
SetOscilloscope ==
    /\ pc = "set_oscilloscope"
    /\ log' = log \o Sent(Step, osc_running, set_oscilloscope_ops)
    /\ pc' = "run"
    /\ UNCHANGED <<start_voltage, stop_voltage, num, input_voltages, i,
                   second_order_products, waveform_volts,
                   second_order_intercept, ret, error, sg_output,
                   sg_amplitude, osc_running, captures, used>>

\* line 55: self.osc.run()
Run ==
    /\ pc = "run"
    /\ osc_running' = TRUE
    /\ log' = log \o Sent(Step, osc_running, <<":RUN">>)
    /\ pc' = "get_waveform_data"
    /\ UNCHANGED <<start_voltage, stop_voltage, num, input_voltages, i,
                   second_order_products, waveform_volts,
                   second_order_intercept, ret, error, sg_output,
                   sg_amplitude, captures, used>>

\* line 61: waveform_volts = self.osc.get_waveform_data(channel=1), all
\* commands answered.  A reply that parses becomes the waveform; a reply
\* float() rejects raises ValueError, which leaves measure_iip2 (there is
\* no handler).
GetWaveformData(resp) ==
    /\ pc = "get_waveform_data"
    /\ osc_running' = RunningAfter(osc_running, get_waveform_data_ops)
    /\ log' = log \o Sent(Step, osc_running, get_waveform_data_ops)
    /\ IF resp.kind = "data"
       THEN /\ captures' = Append(captures,
                                  [step |-> Step, level |-> sg_amplitude,
                                   output |-> sg_output,
                                   samples |-> resp.samples])
            /\ waveform_volts' = assign_waveform(waveform_volts,
                                                 Len(captures) + 1,
                                                 resp.samples)
            /\ pc' = "extract"
            /\ UNCHANGED error
       ELSE /\ error' = "ValueError"
            /\ pc' = "raised"
            /\ UNCHANGED <<captures, waveform_volts>>
    /\ UNCHANGED <<start_voltage, stop_voltage, num, input_voltages, i,
                   second_order_products, second_order_intercept, ret,
                   sg_output, sg_amplitude, used>>

\* lines 65-66: the product of this step's waveform is computed and
\* appended; a ValueError of the extractor leaves measure_iip2
Extract ==
    /\ pc = "extract"
    /\ \E p \in calculate_second_order_product(waveform_volts.samples,
                                               Freq1, Freq2, Fs) :
          IF p = ValueError
          THEN /\ error' = "ValueError"
               /\ pc' = "raised"
               /\ log' = log \o Sent(Step, osc_running, <<"extract">>)
               /\ UNCHANGED <<second_order_products, used>>
          ELSE /\ second_order_products' =
                      append_product(second_order_products, p)
               /\ used' = Append(used, waveform_volts.id)
               /\ log' = log \o Sent(Step, osc_running, <<"extract", "append">>)
               /\ pc' = "stop"
               /\ UNCHANGED error
    /\ UNCHANGED <<start_voltage, stop_voltage, num, input_voltages, i,
                   waveform_volts, second_order_intercept, ret, sg_output,
                   sg_amplitude, osc_running, captures>>

\* line 70: self.osc.stop(), the end of the loop body
Stop ==
    /\ pc = "stop"
    /\ osc_running' = FALSE
    /\ log' = log \o Sent(Step, osc_running, <<":STOP">>)
    /\ i' = i + 1
    /\ pc' = "for"
    /\ UNCHANGED <<start_voltage, stop_voltage, num, input_voltages,
                   second_order_products, waveform_volts,
                   second_order_intercept, ret, error, sg_output,
                   sg_amplitude, captures, used>>

\* line 72: self.sg.disable_output(), after the loop
DisableOutput ==
    /\ pc = "for"
    /\ i = Len(input_voltages)
    /\ sg_output' = "off"
    /\ log' = log \o Sent(Step, osc_running, <<"OUTP1 OFF">>)
    /\ pc' = "fit"
    /\ UNCHANGED <<start_voltage, stop_voltage, num, input_voltages, i,
                   second_order_products, waveform_volts,
                   second_order_intercept, ret, error, sg_amplitude,
                   osc_running, captures, used>>

\* the value of line 79: return input_voltages, second_order_products
returned_points ==
    [input_voltages |-> input_voltages,
     second_order_products |-> second_order_products]

\* lines 75-79: the intercept is computed and printed when more than one
\* product was collected, and the levels and the products are returned;
\* the LinAlgError of calculate_intercept leaves measure_iip2 at line 76
FitAndReturn ==
    /\ pc = "fit"
    /\ IF fit_wanted(second_order_products)
       THEN \E r \in calculate_intercept(input_voltages,
                                         second_order_products) :
               IF r = LinAlgError
               THEN /\ error' = "LinAlgError"
                    /\ pc' = "raised"
                    /\ UNCHANGED <<second_order_intercept, ret>>
               ELSE /\ second_order_intercept' = r
                    /\ ret' = returned_points
                    /\ pc' = "returned"
                    /\ UNCHANGED error
       ELSE /\ ret' = returned_points
            /\ pc' = "returned"
            /\ UNCHANGED <<second_order_intercept, error>>
    /\ UNCHANGED <<start_voltage, stop_voltage, num, input_voltages, i,
                   second_order_products, waveform_volts, sg_output,
                   sg_amplitude, osc_running, log, captures, used>>

\* positions of measure_iip2 at which the next statement talks to an
\* instrument
AtInstrument ==
    pc \in {"for", "enable_output", "set_oscilloscope", "run",
            "get_waveform_data", "stop"}

\* the commands the statement at the current position sends, in order
StatementOps ==
    IF pc = "for"
    THEN (IF i < Len(input_voltages) THEN <<"APPLy:SIN">>
          ELSE <<"OUTP1 OFF">>)
    ELSE IF pc = "enable_output" THEN <<"OUTP1 ON">>
    ELSE IF pc = "set_oscilloscope" THEN set_oscilloscope_ops
    ELSE IF pc = "run" THEN <<":RUN">>
    ELSE IF pc = "get_waveform_data" THEN get_waveform_data_ops
    ELSE IF pc = "stop" THEN <<":STOP">>
    ELSE <<>>

\* Lines 42-72 have no try/except/finally: when a write or a query to an
\* instrument raises (pyvisa VisaIOError: the instrument is gone, or a
\* query gets no reply before the timeout) or the user interrupts a sleep
\* (KeyboardInterrupt), the exception leaves measure_iip2 at once and
\* nothing after it runs.  k is the number of commands of the current
\* statement that went out before the exception: a write that raises is
\* not delivered, a query that times out is.  Only get_waveform_data can
\* fail after its last command (*OPC? unanswered); an interrupt after the
\* last command of any other statement is the k = 0 case of the next
\* position, or Interrupt.
Fault(e, k) ==
    /\ AtInstrument
    /\ k \in 0..Len(StatementOps)
    /\ k = Len(StatementOps) => pc = "get_waveform_data"
    /\ log' = log \o Sent(Step, osc_running, SubSeq(StatementOps, 1, k))
    /\ osc_running' = RunningAfter(osc_running, SubSeq(StatementOps, 1, k))
    /\ error' = e
    /\ pc' = "raised"
    /\ UNCHANGED <<start_voltage, stop_voltage, num, input_voltages, i,
                   second_order_products, waveform_volts,
                   second_order_intercept, ret, sg_output, sg_amplitude,
                   captures, used>>

\* Ctrl-C where no instrument command is pending.  Line 62: time.sleep(1)
\* between the capture and the extraction, with the waveform captured and
\* nothing appended.  Lines 72-77: as the write of OUTP1 OFF returns or
\* during np.polyfit (no intercept yet), or during the print of line 77
\* (intercept computed); the output is off, every product is collected and
\* nothing is returned.
Interrupt ==
    /\ pc \in {"extract", "fit"}
    /\ IF pc = "fit" /\ fit_wanted(second_order_products)
       THEN \E r \in {Unset} \cup
                      (calculate_intercept(input_voltages,
                                           second_order_products)
                          \ {LinAlgError}) :
               second_order_intercept' = r
       ELSE UNCHANGED second_order_intercept
    /\ error' = "KeyboardInterrupt"
    /\ pc' = "raised"
    /\ UNCHANGED <<start_voltage, stop_voltage, num, input_voltages, i,
                   second_order_products, waveform_volts, ret, sg_output,
                   sg_amplitude, osc_running, log, captures, used>>

SweepInit ==
    /\ pc = "idle"
    /\ start_voltage = 0
    /\ stop_voltage = 0
    /\ num = 0
    /\ input_voltages = <<>>
    /\ i = 0
    /\ second_order_products = <<>>
    /\ waveform_volts = [id |-> 0, samples |-> <<>>]
    /\ second_order_intercept = Unset
    /\ ret = Unset
    /\ error = "none"
    /\ sg_output = "off"
    /\ sg_amplitude = 0
    /\ osc_running = FALSE
    /\ log = <<>>
    /\ captures = <<>>
    /\ used = <<>>

----------------------------------------------------------------------------
(* The two pure functions called alone                                     *)

ExtractIdle ==
    /\ x_pc = "idle"
    /\ x_waveform = <<>>
    /\ x_freq1 = 0
    /\ x_freq2 = 0
    /\ x_fs = 0
    /\ x_result = Unset

ExtractInit ==
    /\ x_pc = "called"
    /\ x_waveform \in Waveforms
    /\ x_freq1 \in 1..MaxFreq
    /\ x_freq2 \in 1..MaxFreq
    /\ x_fs \in SampleRates
    /\ x_result = Unset

\* calculate_second_order_product(waveform_volts, freq1, freq2, fs)
ExtractCall ==
    /\ x_pc = "called"
    /\ x_result' \in calculate_second_order_product(x_waveform, x_freq1,
                                                    x_freq2, x_fs)
    /\ x_pc' = "done"
    /\ UNCHANGED <<x_waveform, x_freq1, x_freq2, x_fs, sweepVars, fitVars>>

FitIdle ==
    /\ f_pc = "idle"
    /\ f_levels = <<>>
    /\ f_products = <<>>
    /\ f_result = Unset

FitInit ==
    /\ f_pc = "called"
    /\ \E n \in 2..MaxPts :
          /\ f_levels \in [1..n -> FitLevels]
          /\ f_products \in [1..n -> FitPowers]
    /\ f_result = Unset

\* calculate_intercept(input_voltages, products)
FitCall ==
    /\ f_pc = "called"
    /\ f_result' \in calculate_intercept(f_levels, f_products)
    /\ f_pc' = "done"
    /\ UNCHANGED <<f_levels, f_products, sweepVars, extractVars>>

----------------------------------------------------------------------------
(* Specifications                                                          *)

Init == SweepInit /\ ExtractIdle /\ FitIdle

Next ==
    \/ \E start \in LevelInputs, stop \in LevelInputs, n \in 0..MaxNum :
          \E ups \in TieChoices(start, stop, n) :
             Call(start, stop, n, ups) /\ UNCHANGED <<extractVars, fitVars>>
    \/ SetWaveform /\ UNCHANGED <<extractVars, fitVars>>
    \/ EnableOutput /\ UNCHANGED <<extractVars, fitVars>>
    \/ SetOscilloscope /\ UNCHANGED <<extractVars, fitVars>>
    \/ Run /\ UNCHANGED <<extractVars, fitVars>>
    \/ \E resp \in ScopeResponses :
          GetWaveformData(resp) /\ UNCHANGED <<extractVars, fitVars>>
    \/ Extract /\ UNCHANGED <<extractVars, fitVars>>
    \/ Stop /\ UNCHANGED <<extractVars, fitVars>>
    \/ DisableOutput /\ UNCHANGED <<extractVars, fitVars>>
    \/ FitAndReturn /\ UNCHANGED <<extractVars, fitVars>>
    \/ \E e \in {"VisaIOError", "KeyboardInterrupt"}, k \in 0..MaxOps :
          Fault(e, k) /\ UNCHANGED <<extractVars, fitVars>>
    \/ Interrupt /\ UNCHANGED <<extractVars, fitVars>>

\* the sweep
Spec == Init /\ [][Next]_vars

InitExtract == SweepInit /\ ExtractInit /\ FitIdle

\* calculate_second_order_product on every offered waveform and tone pair
ExtractSpec == InitExtract /\ [][ExtractCall]_vars

InitFit == SweepInit /\ ExtractIdle /\ FitInit

\* calculate_intercept on every offered set of points
FitSpec == InitFit /\ [][FitCall]_vars

----------------------------------------------------------------------------
(* Properties                                                              *)

\* the sweep parameters the specification calls valid
ValidParameters ==
    num >= 1 /\ 0 < start_voltage /\ start_voltage <= stop_voltage

Called == pc # "idle"

Exited == pc \in {"returned", "raised"}

\* C1: on every exit of the sweep (return or exception) the signal
\* generator's output is off.
C1_OutputOffOnExit == Exited => sg_output = "off"

\* C2: a failure of the capture or of the extraction in one step (the
\* ValueError of an unparsable reply or of the extractor) does not end the
\* sweep: measure_iip2 is never left by that exception.
C2_StepFailureDoesNotAbort == error = "ValueError" => pc # "raised"

\* C3: a call with invalid parameters (non-positive level, stop < start,
\* zero steps) sends no command to either instrument.
C3_InvalidParametersTouchNothing ==
    (Called /\ ~ValidParameters) => log = <<>>

DegenerateFitError == [kind |-> "DegenerateFitError"]

\* the powers handed to calculate_intercept are all the same number
ConstantPowers ==
    /\ \A j \in 1..Len(f_products) : f_products[j].kind = "db"
    /\ \A j \in 1..Len(f_products) : f_products[j] = f_products[1]

\* C4: calculate_intercept on two or more points of constant power reports
\* DegenerateFitError.
C4_DegenerateFitReported ==
    (f_pc = "done" /\ ConstantPowers) => f_result = DegenerateFitError

\* C5: the sweep returns an intercept estimate with the points exactly
\* when at least 2 products were collected.
C5_InterceptReturned ==
    pc = "returned" =>
        (Len(second_order_products) >= 2
            <=> "second_order_intercept" \in DOMAIN ret)

\* C6 as stated: for valid parameters the levels are strictly increasing,
\* strictly positive, and the rounded linear spacing.
C6_StrictlyIncreasingPositive ==
    (Called /\ ValidParameters) =>
        /\ \A k \in 1..(Len(input_voltages) - 1) :
              input_voltages[k] < input_voltages[k + 1]
        /\ \A k \in 1..Len(input_voltages) : input_voltages[k] > 0

\* C6 amended: for valid parameters there are num levels, each within half
\* a rounding step of the k-th of num linearly spaced values from start to
\* stop (both ends included); they are non-decreasing and non-negative,
\* strictly increasing when adjacent unrounded levels differ by more than
\* one rounding step, and strictly positive when start exceeds half a step.
C6_LevelsRoundedSpacing ==
    (Called /\ ValidParameters) =>
        /\ Len(input_voltages) = num
        /\ \A k \in 1..num :
              LET q == IF num = 1 THEN 1 ELSE num - 1
                  p == start_voltage * q
                          + (k - 1) * (stop_voltage - start_voltage)
              IN  2 * Abs(input_voltages[k] * MicroPerStep * q - p)
                     <= MicroPerStep * q
        /\ \A k \in 1..(num - 1) : input_voltages[k] <= input_voltages[k + 1]
        /\ \A k \in 1..num : input_voltages[k] >= 0
        /\ (stop_voltage - start_voltage > (num - 1) * MicroPerStep) =>
              \A k \in 1..(num - 1) : input_voltages[k] < input_voltages[k + 1]
        /\ (2 * start_voltage > MicroPerStep) =>
              \A k \in 1..num : input_voltages[k] > 0

\* a valid sweep of three levels closer than a rounding step: two of them
\* round to the same level
C6_Witness ==
    /\ Called /\ ValidParameters
    /\ num = 3
    /\ start_voltage < stop_voltage
    /\ \E k \in 1..2 : input_voltages[k] = input_voltages[k + 1]

\* the retained bins of the extractor's waveform and the two targets
XBins == 0..((Len(x_waveform) \div 2) - 1)
XSum == x_freq1 + x_freq2
XDiff == Abs(x_freq1 - x_freq2)

\* bin b is one of the retained bins whose frequency b*fs/N is closest to
\* the target t
XNearest(b, t) ==
    /\ b \in XBins
    /\ \A k \in XBins :
          Abs(b * x_fs - Len(x_waveform) * t)
             <= Abs(k * x_fs - Len(x_waveform) * t)

\* C7: when bins are retained (two or more samples), the result is
\* 10*log10 of the larger of the powers |X[b]|^2 / (N div 2)^2 of a bin
\* nearest to f1+f2 and of a bin nearest to |f1-f2| among the bins
\* 0..N div 2 - 1.
C7_NearestBinStrongerSideband ==
    (x_pc = "done" /\ Len(x_waveform) >= 2) =>
        \E bs \in XBins, bd \in XBins :
            /\ XNearest(bs, XSum)
            /\ XNearest(bd, XDiff)
            /\ LET ps == MagSq(x_waveform, bs)
                   pd == MagSq(x_waveform, bd)
                   h  == Len(x_waveform) \div 2
               IN  x_result = TenLog10(IF ps >= pd THEN ps ELSE pd, h * h)

\* six samples, the sum lands on bin 2 and the difference on bin 1, the two
\* bins differ in power and the weaker one is not reported
C7_Witness ==
    /\ x_pc = "done"
    /\ Len(x_waveform) = 6
    /\ XNearest(2, XSum) /\ ~XNearest(1, XSum) /\ ~XNearest(0, XSum)
    /\ XNearest(1, XDiff) /\ ~XNearest(2, XDiff) /\ ~XNearest(0, XDiff)
    /\ MagSq(x_waveform, 1) > MagSq(x_waveform, 2)
    /\ MagSq(x_waveform, 2) > 0
    /\ x_result = TenLog10(MagSq(x_waveform, 1), 9)

\* the operations of one sweep step in the order the claim gives them:
\* source configure, enable, digitizer timebase/scale/trigger, start, stop,
\* the capture, extraction, recording, and the final stop
ExpectedStepOps ==
    <<"APPLy:SIN", "OUTP1 ON",
      ":TIMEBASE:SCALE", ":CHANNEL1:SCALE", ":TRIGGER:EDGE:SOURCE",
      ":TRIGGER:EDGE:LEVEL",
      ":RUN", ":STOP",
      ":WAVeform:SOURce", ":WAVeform:MODE", ":WAVeform:FORMat",
      ":WAVeform:STARt", ":WAVeform:STOP", ":WAVeform:DATA?", "*OPC?",
      "extract", "append", ":STOP">>

\* the operations logged for step st, in order
StepOps(st) ==
    LET es == SelectSeq(log, LAMBDA e : e.step = st)
    IN  [j \in 1..Len(es) |-> es[j].op]

IsPrefix(a, b) == Len(a) <= Len(b) /\ a = SubSeq(b, 1, Len(a))

\* C8: in every step the operations occur in the order source configure,
\* enable, digitizer configuration, start, stop, one capture, extraction,
\* record, stop; the acquisition is stopped when the waveform is requested;
\* and nothing of step s+1 is issued before step s has recorded its result
\* and stopped the digitizer.
C8_StepOrderSerialized ==
    /\ \A st \in 1..Len(input_voltages) : IsPrefix(StepOps(st), ExpectedStepOps)
    /\ \A j \in 1..Len(log) :
          log[j].op = ":WAVeform:DATA?" => ~log[j].running
    /\ \A j \in 1..(Len(log) - 1) : log[j].step <= log[j + 1].step
    /\ \A st \in 1..Len(input_voltages) :
          StepOps(st + 1) # <<>> => StepOps(st) = ExpectedStepOps

\* a second step has begun after a complete first step
C8_Witness ==
    /\ \E j \in 1..Len(log) : log[j].step = 2 /\ log[j].op = ":WAVeform:DATA?"
    /\ StepOps(1) = ExpectedStepOps

\* C9: at every point of a sweep there is one product per step that has
\* recorded its result, in sweep order; product j was computed from capture
\* j, the only capture of step j, taken while the source was on at level j.
C9_OneProductPerStepFromItsWaveform ==
    /\ Len(second_order_products) =
          Cardinality({j \in 1..Len(log) : log[j].op = "append"})
    /\ \A st \in 1..Len(input_voltages) :
          st <= Len(second_order_products)
             <=> \E j \in 1..Len(log) :
                    log[j].step = st /\ log[j].op = "append"
    /\ Len(second_order_products) \in {i, i + 1}
    /\ Len(used) = Len(second_order_products)
    /\ Len(captures) \in {Len(second_order_products),
                          Len(second_order_products) + 1}
    /\ \A j \in 1..Len(captures) :
          /\ captures[j].step = j
          /\ captures[j].level = input_voltages[j]
          /\ captures[j].output = "on"
    /\ \A j \in 1..Len(second_order_products) :
          /\ used[j] = j
          /\ second_order_products[j]
                \in calculate_second_order_product(captures[j].samples,
                                                   Freq1, Freq2, Fs)

\* three steps done, each with a different waveform and product
C9_Witness ==
    /\ Len(second_order_products) = 3
    /\ second_order_products[1] # second_order_products[2]
    /\ second_order_products[2] # second_order_products[3]
    /\ second_order_products[1] # second_order_products[3]
    /\ input_voltages[1] < input_voltages[2]

\* C10: for every waveform of one or more samples the extractor yields a
\* decibel value (-infinity when the selected powers are zero), never an
\* exception.
C10_ExtractorAlwaysYieldsValue ==
    x_pc = "done" => x_result.kind \in {"db", "neginf", "tenlog10"}

====
